---- MODULE Spec2Model ----
(***************************************************************************)
(* fusetree: the buffered file (BlobFile) with its shared, reference       *)
(* counted handle, and the streaming file (GeneratorFile) with its cursor. *)
(* Source: src/fusetree/nodetypes.py, src/fusetree/core.py.                *)
(***************************************************************************)
EXTENDS Integers, Sequences, FiniteSets, TLC

\* ------------------------------------------------------------ bounds
\* Longest buffer / committed content the model lets a write produce.
MaxLen == 2
\* Number of transport sessions (file descriptors) that may be open at once.
MaxSessions == 2
\* Number of maximal runs of writes/truncates a behaviour may contain.
MaxRuns == 2
\* Most chunks a producer yields, and the longest of them.
MaxChunks == 2
MaxChunkLen == 3
\* Largest size a read of the streaming file asks for.
MaxRead == 4
\* Largest minimum-read-length threshold.
MaxMinRead == 2
\* Most node objects the directory operations construct.
MaxNodes == 1
\* Most directory handles open at a time.
MaxDirHandles == 2
\* Most slots a directory's entry table grows to.
MaxEntries == 3

\* Byte values: 0 is the byte BytesIO pads with, 1 a payload byte.
Bytes == {0, 1}
\* Payloads handed to write.
Payloads == {<<1>>, <<0, 1>>}

Sessions == 1..MaxSessions
\* Identities of Handle objects; one more than the sessions can hold alive.
HandleIds == 1..(MaxSessions + 1)

Min(a, b) == IF a < b THEN a ELSE b

\* All sequences over S of length at most n.
SeqsUpTo(S, n) == UNION {[1..k -> S] : k \in 0..n}

\* s[0:n] in Python: the first n elements (all of s when n >= len(s)).
Take(s, n) == SubSeq(s, 1, Min(n, Len(s)))

RECURSIVE Zeros(_)
Zeros(n) == IF n <= 0 THEN <<>> ELSE <<0>> \o Zeros(n - 1)

\* ------------------------------------------------------------ state
VARIABLES
    rw,             \* BlobFile.rw
    data,           \* BlobFile.data: the committed content load() returns
    shared_handle,  \* BlobFile.shared_handle: a handle identity or None
    heap,           \* the BlobFile.Handle objects: identity -> buffer, dirty, refs
    held,           \* the transport's table: session -> the handle open() returned
    pc,             \* where each session's in-flight call is suspended
    saving,         \* the argument of each session's suspended save()
    nsave,          \* number of save() invocations so far
    nruns,          \* number of maximal runs of accepted writes/truncates so far
    inrun,          \* the previous call was an accepted write/truncate
    last,           \* the most recent call and what it returned or raised
    generator,      \* GeneratorFile.generator: the chunks the producer yields
    min_read_len,   \* GeneratorFile.min_read_len
    cursor,         \* GeneratorFile.Handle of the session: its iterator, blob, position
    out,            \* every byte the session's reads returned so far
    class_of,       \* the class of each node object, "" for an identity not in use
    dir_rw,         \* DictDir.rw of each directory node
    contents,       \* DictDir.contents of each directory node: the dict's entry table
    dhandle         \* the DictDir.Handle objects: their items view and its iteration

blobvars == <<rw, data, shared_handle, heap, held, pc, saving, nsave, nruns, inrun>>
genvars == <<generator, min_read_len, cursor, out>>
dirvars == <<class_of, dir_rw, contents, dhandle>>
vars == <<blobvars, last, genvars, dirvars>>

\* shared_handle = None (nodetypes.py:57)
None == 0

\* A slot of the heap no live object occupies.
Free == [buffer |-> <<>>, dirty |-> "False", refs |-> 0]

\* BlobFile.Handle.__init__: buffer = BytesIO(data), dirty = False, refs = 0
HandleInit(bytes) == [buffer |-> bytes, dirty |-> "False", refs |-> 0]

\* Python truth value of the dirty attribute (False, True, or None after a flush).
Truthy(d) == d = "True"

\* The handle identities something still refers to.
Live(sh, hd) == {h \in HandleIds : h = sh \/ \E s \in Sessions : hd[s] = h}

\* The transport gives an open the lowest free slot of its table.
LowestFree(hd) == CHOOSE s \in Sessions : hd[s] = None /\ \A t \in 1..(s - 1) : hd[t] # None

\* A new object is distinct from every live one.
NewHandle == CHOOSE h \in HandleIds : h \notin Live(shared_handle, held)

\* Objects nothing refers to any more are gone.
Collect(hp, sh, hd) == [h \in HandleIds |-> IF h \in Live(sh, hd) THEN hp[h] ELSE Free]

\* fuse.FuseOSError(errno.ENOPERM): the errno module defines EPERM and no
\* ENOPERM, so evaluating the argument raises AttributeError and no
\* FuseOSError is ever constructed.
RaiseENOPERM == "AttributeError"

\* ------------------------------------------------------------ BytesIO
\* seek(offset); read(size)
BufRead(buf, size, offset) ==
    IF offset >= Len(buf) THEN <<>>
    ELSE SubSeq(buf, offset + 1, Min(offset + size, Len(buf)))

\* seek(offset); write(b): an empty write changes nothing, a write past the
\* end pads the gap with zero bytes, a write inside overwrites in place.
BufWrite(buf, b, offset) ==
    IF Len(b) = 0 THEN buf
    ELSE LET padded == IF offset > Len(buf) THEN buf \o Zeros(offset - Len(buf)) ELSE buf
             endpos == offset + Len(b)
         IN  SubSeq(padded, 1, offset) \o b \o SubSeq(padded, endpos + 1, Len(padded))

\* truncate(size): BytesIO only ever shrinks.
BufTruncate(buf, size) == IF size < Len(buf) THEN SubSeq(buf, 1, size) ELSE buf

\* The record of a call: what was called, by which session (0: none), with
\* which bytes, offset and size, on which handle, and what came back: the
\* error raised ("" for none) and the bytes returned; old is the committed
\* content when the call began. For a release, arg is the buffer of the
\* handle as the release found it.
Call(op, s, err, ret, h, arg, off, size) ==
    [op |-> op, s |-> s, err |-> err, ret |-> ret, h |-> h, arg |-> arg,
     off |-> off, size |-> size, old |-> data]

NoCall == [op |-> "", s |-> 0, err |-> "", ret |-> <<>>, h |-> None, arg |-> <<>>,
           off |-> 0, size |-> 0, old |-> <<>>]

\* ------------------------------------------------------------ BlobFile
\* BlobFile.load
Load(d) == d

\* BlobFile.save: the new committed content
Save(bytes) == bytes

\* A variant of open that gives every session a handle of its own.
OpenNodeUnshared(sh, hp, d) ==
    LET h == NewHandle
    IN  [shared_handle |-> h, heap |-> [hp EXCEPT ![h] = [HandleInit(Load(d)) EXCEPT !.refs = 1]],
         h |-> h]

\* BlobFile.open: create the shared handle from load() when there is none,
\* count the session, return the shared handle.
OpenNode(sh, hp, d) ==
    LET h == IF sh = None THEN NewHandle ELSE sh
        hp1 == IF sh = None THEN [hp EXCEPT ![h] = HandleInit(Load(d))] ELSE hp
    IN  [shared_handle |-> h, heap |-> [hp1 EXCEPT ![h].refs = @ + 1], h |-> h]

\* BlobFile.Handle.write past the writable check
HandleWrite(hnd, b, offset) ==
    [hnd EXCEPT !.dirty = "True", !.buffer = BufWrite(@, b, offset)]

\* A variant of truncate that forgets to mark the buffer dirty.
HandleTruncateClean(hnd, size) == [hnd EXCEPT !.buffer = BufTruncate(@, size)]

\* BlobFile.Handle.truncate past the writable check
HandleTruncate(hnd, size) ==
    [hnd EXCEPT !.dirty = "True", !.buffer = BufTruncate(@, size)]

\* Variants of flush: one that never saves, one that saves every time.
FlushNever(hnd) == FALSE
FlushAlways(hnd) == TRUE

\* BlobFile.Handle.flush: does this flush call save()?
FlushSaves(hnd) == Truthy(hnd.dirty)

\* BlobFile.Handle.flush: the handle, the committed content and the number of
\* save() calls after flush ran on handle hnd.
HandleFlush(hnd, d, n) ==
    IF FlushSaves(hnd)
    THEN [hnd |-> [hnd EXCEPT !.dirty = "None"], data |-> Save(hnd.buffer), nsave |-> n + 1]
    ELSE [hnd |-> hnd, data |-> d, nsave |-> n]

\* A variant of release that flushes at zero but keeps the node's handle.
HandleReleaseKeeps(h, sh, hp, d, n) ==
    LET hnd == [hp[h] EXCEPT !.refs = @ - 1]
        f == HandleFlush(hnd, d, n)
    IN  IF hnd.refs = 0
        THEN [shared_handle |-> sh, heap |-> [hp EXCEPT ![h] = f.hnd],
              data |-> f.data, nsave |-> f.nsave]
        ELSE [shared_handle |-> sh, heap |-> [hp EXCEPT ![h] = hnd],
              data |-> d, nsave |-> n]

\* BlobFile.Handle.release on handle h: uncount the session; at zero flush
\* and clear the node's shared_handle.
HandleRelease(h, sh, hp, d, n) ==
    LET hnd == [hp[h] EXCEPT !.refs = @ - 1]
        f == HandleFlush(hnd, d, n)
    IN  IF hnd.refs = 0
        THEN [shared_handle |-> None, heap |-> [hp EXCEPT ![h] = f.hnd],
              data |-> f.data, nsave |-> f.nsave]
        ELSE [shared_handle |-> sh, heap |-> [hp EXCEPT ![h] = hnd],
              data |-> d, nsave |-> n]

\* A variant of getattr that always reports the committed size.
GetattrCommitted(sh, hp, d) == Len(d)

\* BlobFile.getattr: st_size
GetattrSize(sh, hp, d) == IF sh # None THEN Len(hp[sh].buffer) ELSE Len(d)

\* A write or truncate is accepted: it starts a run unless it continues one.
RunsAfter == IF inrun THEN nruns ELSE nruns + 1
MayMutate == inrun \/ nruns < MaxRuns

TypeOK ==
    /\ rw \in BOOLEAN
    /\ data \in SeqsUpTo(Bytes, MaxLen)
    /\ shared_handle \in HandleIds \cup {None}
    /\ \A h \in HandleIds : /\ heap[h].buffer \in SeqsUpTo(Bytes, MaxLen)
                            /\ heap[h].dirty \in {"False", "True", "None"}
                            /\ heap[h].refs \in Int
    /\ held \in [Sessions -> HandleIds \cup {None}]
    /\ nsave \in Nat /\ nruns \in 0..MaxRuns /\ inrun \in BOOLEAN

\* BlobFile(data, mode, rw): no handle, no session.
BlobInit ==
    /\ rw \in BOOLEAN
    /\ data \in SeqsUpTo(Bytes, MaxLen)
    /\ shared_handle = None
    /\ heap = [h \in HandleIds |-> Free]
    /\ held = [s \in Sessions |-> None]
    /\ pc = [s \in Sessions |-> "idle"]
    /\ saving = [s \in Sessions |-> <<>>]
    /\ nsave = 0 /\ nruns = 0 /\ inrun = FALSE

\* The handles the sessions may call: those an open returned and no
\* matching release gave back yet.
HeldHandles == {held[s] : s \in Sessions} \ {None}

\* ---- each call runs to completion before the next one starts
\* open() for session s
Open(s) ==
    /\ held[s] = None /\ s = LowestFree(held)
    /\ LET o == OpenNode(shared_handle, heap, data)
       IN  /\ shared_handle' = o.shared_handle
           /\ heap' = o.heap
           /\ held' = [held EXCEPT ![s] = o.h]
           /\ last' = Call("open", s, "", <<>>, o.h, <<>>, 0, 0)
    /\ inrun' = FALSE
    /\ UNCHANGED <<rw, data, pc, saving, nsave, nruns, genvars, dirvars>>

\* h.read(size, offset)
Read(h, size, offset) ==
    /\ last' = Call("read", 0, "", BufRead(heap[h].buffer, size, offset), h, <<>>, offset, size)
    /\ UNCHANGED <<blobvars, genvars, dirvars>>

\* h.write(b, offset)
Write(h, b, offset) ==
    /\ offset + Len(b) <= MaxLen
    /\ IF ~rw
       THEN /\ last' = Call("write", 0, RaiseENOPERM, <<>>, h, b, offset, Len(b))
            /\ inrun' = FALSE
            /\ UNCHANGED <<heap, nruns>>
       ELSE /\ MayMutate
            /\ heap' = [heap EXCEPT ![h] = HandleWrite(@, b, offset)]
            /\ last' = Call("write", 0, "", <<>>, h, b, offset, Len(b))
            /\ nruns' = RunsAfter
            /\ inrun' = TRUE
    /\ UNCHANGED <<rw, data, shared_handle, held, pc, saving, nsave, genvars, dirvars>>

\* h.truncate(size)
Truncate(h, size) ==
    /\ IF ~rw
       THEN /\ last' = Call("truncate", 0, RaiseENOPERM, <<>>, h, <<>>, 0, size)
            /\ inrun' = FALSE
            /\ UNCHANGED <<heap, nruns>>
       ELSE /\ MayMutate
            /\ heap' = [heap EXCEPT ![h] = HandleTruncate(@, size)]
            /\ last' = Call("truncate", 0, "", <<>>, h, <<>>, 0, size)
            /\ nruns' = RunsAfter
            /\ inrun' = TRUE
    /\ UNCHANGED <<rw, data, shared_handle, held, pc, saving, nsave, genvars, dirvars>>

\* h.flush()
Flush(h) ==
    /\ LET f == HandleFlush(heap[h], data, nsave)
       IN  /\ heap' = [heap EXCEPT ![h] = f.hnd]
           /\ data' = f.data
           /\ nsave' = f.nsave
    /\ last' = Call("flush", 0, "", <<>>, h, <<>>, 0, 0)
    /\ inrun' = FALSE
    /\ UNCHANGED <<rw, shared_handle, held, pc, saving, nruns, genvars, dirvars>>

\* held[s].release(), the one release matching the open of session s
Release(s) ==
    /\ held[s] # None
    /\ LET r == HandleRelease(held[s], shared_handle, heap, data, nsave)
           hd == [held EXCEPT ![s] = None]
       IN  /\ shared_handle' = r.shared_handle
           /\ heap' = Collect(r.heap, r.shared_handle, hd)
           /\ data' = r.data
           /\ nsave' = r.nsave
           /\ held' = hd
    /\ last' = Call("release", s, "", <<>>, held[s], heap[held[s]].buffer, 0, 0)
    /\ inrun' = FALSE
    /\ UNCHANGED <<rw, pc, saving, nruns, genvars, dirvars>>

\* node.getattr()
Getattr ==
    /\ last' = Call("getattr", 0, "", <<>>, None, <<>>, 0,
                  GetattrSize(shared_handle, heap, data))
    /\ UNCHANGED <<blobvars, genvars, dirvars>>

\* A variant of the node's truncate without the finally: the session it
\* opened is released only when the handle's truncate returned.
NodeTruncateNoFinally(size) ==
    /\ rw => nruns < MaxRuns
    /\ LET o == OpenNode(shared_handle, heap, data)
           hp == IF rw THEN [o.heap EXCEPT ![o.h] = HandleTruncate(@, size)] ELSE o.heap
           r == IF rw THEN HandleRelease(o.h, o.shared_handle, hp, data, nsave)
                ELSE [shared_handle |-> o.shared_handle, heap |-> hp,
                      data |-> data, nsave |-> nsave]
       IN  /\ shared_handle' = r.shared_handle
           /\ heap' = Collect(r.heap, r.shared_handle, held)
           /\ data' = r.data
           /\ nsave' = r.nsave
    /\ last' = Call("ntruncate", 0, IF rw THEN "" ELSE RaiseENOPERM, <<>>, None, <<>>, 0, size)
                @@ [before |-> [shared_handle |-> shared_handle,
                                refs |-> IF shared_handle = None THEN 0
                                         ELSE heap[shared_handle].refs]]
    /\ nruns' = IF rw THEN nruns + 1 ELSE nruns
    /\ inrun' = FALSE
    /\ UNCHANGED <<rw, held, pc, saving, genvars, dirvars>>

\* node.truncate(size): open, handle.truncate, and release in the finally
\* clause whether or not the truncate raised.
NodeTruncate(size) ==
    /\ rw => nruns < MaxRuns
    /\ LET o == OpenNode(shared_handle, heap, data)
           hp == IF rw THEN [o.heap EXCEPT ![o.h] = HandleTruncate(@, size)] ELSE o.heap
           r == HandleRelease(o.h, o.shared_handle, hp, data, nsave)
       IN  /\ shared_handle' = r.shared_handle
           /\ heap' = Collect(r.heap, r.shared_handle, held)
           /\ data' = r.data
           /\ nsave' = r.nsave
    /\ last' = Call("ntruncate", 0, IF rw THEN "" ELSE RaiseENOPERM, <<>>, None, <<>>, 0, size)
                @@ [before |-> [shared_handle |-> shared_handle,
                                refs |-> IF shared_handle = None THEN 0
                                         ELSE heap[shared_handle].refs]]
    /\ nruns' = IF rw THEN nruns + 1 ELSE nruns
    /\ inrun' = FALSE
    /\ UNCHANGED <<rw, held, pc, saving, genvars, dirvars>>

\* ------------------------------------------------------------ GeneratorFile
\* A session without a handle.
NoCursor ==
    [open |-> FALSE, direct_io |-> FALSE, nonseekable |-> FALSE, yielded |-> 0,
     blob_is_none |-> FALSE, current_blob |-> <<>>, current_blob_position |-> 0]

\* The streaming file is not part of this specification.
\* The node identities, and the directory handles the transport can hold.
NodeIds == 1..(3 + MaxNodes)
DirHandles == 1..MaxDirHandles

\* No directory handle: opendir was not called.
NoDirHandle == [open |-> FALSE, node |-> None, state |-> "", di_pos |-> 0,
                di_used |-> 0, len |-> 0, names |-> <<>>, opened |-> <<>>]

\* No directory tree in play.
DirIdle ==
    /\ class_of = [n \in NodeIds |-> ""]
    /\ dir_rw = [n \in NodeIds |-> FALSE]
    /\ contents = [n \in NodeIds |-> <<>>]
    /\ dhandle = [k \in DirHandles |-> NoDirHandle]

GenIdle ==
    /\ generator = <<>>
    /\ min_read_len = -1
    /\ cursor = NoCursor
    /\ out = <<>>

Init == BlobInit /\ last = NoCall /\ GenIdle /\ DirIdle

Next ==
    \/ \E s \in Sessions : Open(s)
    \/ \E h \in HeldHandles, size \in 1..MaxLen, offset \in 0..MaxLen : Read(h, size, offset)
    \/ \E h \in HeldHandles, b \in Payloads, offset \in 0..MaxLen : Write(h, b, offset)
    \/ \E h \in HeldHandles, size \in 0..MaxLen : Truncate(h, size)
    \/ \E h \in HeldHandles : Flush(h)
    \/ \E s \in Sessions : Release(s)
    \/ Getattr
    \/ \E size \in 0..MaxLen : NodeTruncate(size)

Spec == Init /\ [][Next]_vars

\* ---- load() and save() are suspension points: a call that awaits one of
\* them stops there, other calls run, and it continues later. One call at a
\* time per session; pc[s] is "idle" between the calls of session s.
\* open() up to its await: with a shared handle it completes at once,
\* without one it awaits load().
OpenBegin(s) ==
    /\ pc[s] = "idle" /\ held[s] = None /\ s = LowestFree(held)
    /\ IF shared_handle = None
       THEN /\ pc' = [pc EXCEPT ![s] = "open.load"]
            /\ last' = Call("open.load", s, "", <<>>, None, <<>>, 0, 0)
            /\ UNCHANGED <<heap, held>>
       ELSE /\ heap' = [heap EXCEPT ![shared_handle].refs = @ + 1]
            /\ held' = [held EXCEPT ![s] = shared_handle]
            /\ last' = Call("open", s, "", <<>>, shared_handle, <<>>, 0, 0)
            /\ UNCHANGED pc
    /\ inrun' = FALSE
    /\ UNCHANGED <<rw, data, shared_handle, saving, nsave, nruns, genvars, dirvars>>

\* open() after load() returned: the new handle becomes the node's shared
\* handle, whatever that was by now.
OpenLoaded(s) ==
    /\ pc[s] = "open.load"
    /\ LET h == NewHandle
       IN  /\ shared_handle' = h
           /\ heap' = [heap EXCEPT ![h] = [HandleInit(Load(data)) EXCEPT !.refs = @ + 1]]
           /\ held' = [held EXCEPT ![s] = h]
           /\ last' = Call("open", s, "", <<>>, h, <<>>, 0, 0)
    /\ pc' = [pc EXCEPT ![s] = "idle"]
    /\ inrun' = FALSE
    /\ UNCHANGED <<rw, data, saving, nsave, nruns, genvars, dirvars>>

\* handle.write(b, offset): no await inside
WriteNow(s, b, offset) == pc[s] = "idle" /\ held[s] # None /\ Write(held[s], b, offset)

\* handle.flush() up to its await: clean it completes at once, dirty it
\* awaits save(buffer.getvalue()).
FlushBegin(s) ==
    /\ pc[s] = "idle" /\ held[s] # None
    /\ IF FlushSaves(heap[held[s]])
       THEN /\ saving' = [saving EXCEPT ![s] = heap[held[s]].buffer]
            /\ pc' = [pc EXCEPT ![s] = "flush.save"]
            /\ nsave' = nsave + 1
            /\ last' = Call("flush.save", s, "", <<>>, held[s], <<>>, 0, 0)
       ELSE /\ last' = Call("flush", s, "", <<>>, held[s], <<>>, 0, 0)
            /\ UNCHANGED <<saving, pc, nsave>>
    /\ inrun' = FALSE
    /\ UNCHANGED <<rw, data, shared_handle, heap, held, nruns, genvars, dirvars>>

\* flush() after save() returned: dirty = None. The record of the call
\* keeps the bytes that save() was given.
FlushSaved(s) ==
    /\ pc[s] = "flush.save"
    /\ data' = Save(saving[s])
    /\ heap' = [heap EXCEPT ![held[s]].dirty = "None"]
    /\ saving' = [saving EXCEPT ![s] = <<>>]
    /\ pc' = [pc EXCEPT ![s] = "idle"]
    /\ last' = Call("flush", s, "", <<>>, held[s], <<>>, 0, 0) @@ [saved |-> saving[s]]
    /\ UNCHANGED <<rw, shared_handle, held, nsave, nruns, inrun, genvars, dirvars>>

\* release() up to its await: the count is decremented; above zero, or at
\* zero with a clean buffer, it completes at once; at zero with a dirty
\* buffer it awaits save() inside the final flush.
ReleaseBegin(s) ==
    /\ pc[s] = "idle" /\ held[s] # None
    /\ LET h == held[s]
           hnd == [heap[h] EXCEPT !.refs = @ - 1]
           hd == [held EXCEPT ![s] = None]
       IN  IF hnd.refs = 0 /\ FlushSaves(hnd)
           THEN /\ heap' = [heap EXCEPT ![h] = hnd]
                /\ saving' = [saving EXCEPT ![s] = hnd.buffer]
                /\ pc' = [pc EXCEPT ![s] = "release.save"]
                /\ nsave' = nsave + 1
                /\ last' = Call("release.save", s, "", <<>>, h, <<>>, 0, 0)
                /\ UNCHANGED <<shared_handle, held>>
           ELSE /\ shared_handle' = IF hnd.refs = 0 THEN None ELSE shared_handle
                /\ heap' = Collect([heap EXCEPT ![h] = hnd], shared_handle', hd)
                /\ held' = hd
                /\ last' = Call("release", s, "", <<>>, h, <<>>, 0, 0)
                /\ UNCHANGED <<saving, pc, nsave>>
    /\ inrun' = FALSE
    /\ UNCHANGED <<rw, data, nruns, genvars, dirvars>>

\* release() after save() returned: dirty = None, then the node's
\* shared_handle is set to None, whatever it was by now.
ReleaseSaved(s) ==
    /\ pc[s] = "release.save"
    /\ LET h == held[s]
           hd == [held EXCEPT ![s] = None]
       IN  /\ data' = Save(saving[s])
           /\ shared_handle' = None
           /\ heap' = Collect([heap EXCEPT ![h].dirty = "None"], None, hd)
           /\ held' = hd
           /\ last' = Call("release", s, "", <<>>, h, <<>>, 0, 0)
    /\ saving' = [saving EXCEPT ![s] = <<>>]
    /\ pc' = [pc EXCEPT ![s] = "idle"]
    /\ UNCHANGED <<rw, nsave, nruns, inrun, genvars, dirvars>>

NextConc ==
    \/ \E s \in Sessions : OpenBegin(s)
    \/ \E s \in Sessions : OpenLoaded(s)
    \/ \E s \in Sessions, b \in Payloads, offset \in 0..MaxLen : WriteNow(s, b, offset)
    \/ \E s \in Sessions : FlushBegin(s)
    \/ \E s \in Sessions : FlushSaved(s)
    \/ \E s \in Sessions : ReleaseBegin(s)
    \/ \E s \in Sessions : ReleaseSaved(s)

SpecConc == Init /\ [][NextConc]_vars

\* ---- the streaming file
\* The values a producer may yield: bytes, or text the coercion encodes.
Kinds == {"bytes", "str"}

\* A producer's chunks with the given lengths; the bytes are numbered in
\* producer order, so that a byte lost, repeated or out of place shows.
RECURSIVE ChunksFrom(_, _, _)
ChunksFrom(lens, kind, first) ==
    IF lens = <<>> THEN <<>>
    ELSE <<[kind |-> kind, val |-> [i \in 1..Head(lens) |-> first + i - 1]]>>
         \o ChunksFrom(Tail(lens), kind, first + Head(lens))

Producers ==
    {ChunksFrom(lens, kind, 1) : lens \in SeqsUpTo(0..MaxChunkLen, MaxChunks), kind \in Kinds}

\* types_conv.as_bytes: the raw bytes of a bytes-like value
as_bytes(chunk) == chunk.val

\* All the bytes the producer yields, in order.
RECURSIVE Concat(_)
Concat(chunks) == IF chunks = <<>> THEN <<>> ELSE as_bytes(Head(chunks)) \o Concat(Tail(chunks))

\* FileHandle.__init__(self, node=None, direct_io=False), called with the
\* keyword arguments kw: a keyword it does not declare is a TypeError.
FileHandleInit(kw) ==
    IF DOMAIN kw \subseteq {"direct_io"}
    THEN [err |-> "", direct_io |-> IF "direct_io" \in DOMAIN kw THEN kw.direct_io ELSE FALSE]
    ELSE [err |-> "TypeError", direct_io |-> FALSE]

\* GeneratorFile.Handle.__init__ after super().__init__: a fresh iterator
\* over the producer, an empty current blob, position zero.
CursorInit ==
    [open |-> TRUE, direct_io |-> TRUE, nonseekable |-> TRUE, yielded |-> 0,
     blob_is_none |-> FALSE, current_blob |-> <<>>, current_blob_position |-> 0]

\* GeneratorFile.Handle.__init__: super().__init__(node, direct_io=True,
\* nonseekable=True) comes first; when it raises nothing else runs.
GenHandleInit ==
    LET base == FileHandleInit([direct_io |-> TRUE, nonseekable |-> TRUE])
    IN  IF base.err # "" THEN [err |-> base.err, handle |-> NoCursor]
        ELSE [err |-> "", handle |-> [CursorInit EXCEPT !.direct_io = base.direct_io]]

\* GeneratorFile.Handle.read, the while loop: c is the handle, ret the bytes
\* accumulated so far.
RECURSIVE ReadLoop(_, _, _)
ReadLoop(c, size, ret) ==
    IF ~(size > Len(ret) /\ ~c.blob_is_none) THEN [cursor |-> c, ret |-> ret]
    ELSE LET n == Min(size - Len(ret), Len(c.current_blob) - c.current_blob_position)
             ret1 == IF n > 0
                     THEN ret \o SubSeq(c.current_blob, c.current_blob_position + 1,
                                        c.current_blob_position + n)
                     ELSE ret
             c1 == IF n > 0
                   THEN [c EXCEPT !.current_blob_position = @ + n]
                   ELSE IF c.yielded < Len(generator)
                        THEN [c EXCEPT !.current_blob = as_bytes(generator[c.yielded + 1]),
                                       !.yielded = @ + 1,
                                       !.current_blob_position = 0]
                        ELSE [c EXCEPT !.blob_is_none = TRUE, !.current_blob = <<>>,
                                       !.current_blob_position = 0]
         IN  IF min_read_len > 0 /\ Len(ret1) >= min_read_len
             THEN [cursor |-> c1, ret |-> ret1]
             ELSE ReadLoop(c1, size, ret1)

\* A variant of read that starts by dropping what is left of the current
\* chunk instead of keeping it for this call.
HandleReadDropsLeftover(c, size) ==
    ReadLoop([c EXCEPT !.current_blob_position = Len(c.current_blob)], size, <<>>)

\* A variant of the loop that never looks at min_read_len.
RECURSIVE ReadLoopNoThreshold(_, _, _)
ReadLoopNoThreshold(c, size, ret) ==
    IF ~(size > Len(ret) /\ ~c.blob_is_none) THEN [cursor |-> c, ret |-> ret]
    ELSE LET n == Min(size - Len(ret), Len(c.current_blob) - c.current_blob_position)
         IN  IF n > 0
             THEN ReadLoopNoThreshold(
                      [c EXCEPT !.current_blob_position = @ + n], size,
                      ret \o SubSeq(c.current_blob, c.current_blob_position + 1,
                                    c.current_blob_position + n))
             ELSE IF c.yielded < Len(generator)
                  THEN ReadLoopNoThreshold(
                           [c EXCEPT !.current_blob = as_bytes(generator[c.yielded + 1]),
                                     !.yielded = @ + 1, !.current_blob_position = 0],
                           size, ret)
                  ELSE ReadLoopNoThreshold(
                           [c EXCEPT !.blob_is_none = TRUE, !.current_blob = <<>>,
                                     !.current_blob_position = 0], size, ret)

HandleReadNoThreshold(c, size) == ReadLoopNoThreshold(c, size, <<>>)

\* GeneratorFile.Handle.read(size, offset)
HandleRead(c, size) == ReadLoop(c, size, <<>>)

\* GeneratorFile(generator, mode, min_read_len)
GenInit ==
    /\ generator \in Producers
    /\ min_read_len \in -1..MaxMinRead
    /\ out = <<>>

\* The buffered file is not part of these specifications.
BlobIdle ==
    /\ rw = FALSE
    /\ data = <<>>
    /\ shared_handle = None
    /\ heap = [h \in HandleIds |-> Free]
    /\ held = [s \in Sessions |-> None]
    /\ pc = [s \in Sessions |-> "idle"]
    /\ saving = [s \in Sessions |-> <<>>]
    /\ nsave = 0 /\ nruns = 0 /\ inrun = FALSE

\* GeneratorFile.open(mode): return GeneratorFile.Handle(self, ...)
GenOpen ==
    /\ ~cursor.open
    /\ LET o == GenHandleInit
       IN  /\ cursor' = o.handle
           /\ last' = Call("gen.open", 0, o.err, <<>>, None, <<>>, 0, 0)
    /\ UNCHANGED <<blobvars, generator, min_read_len, out, dirvars>>

InitGenOpen == BlobIdle /\ last = NoCall /\ GenInit /\ cursor = NoCursor /\ DirIdle

SpecGenOpen == InitGenOpen /\ [][GenOpen]_vars

\* handle.read(size, offset) on the session's handle; reads come in
\* contiguous offset order, and the handle does not look at the offset.
\* The record of the call keeps the handle as the call found it.
GenRead(size) ==
    /\ cursor.open
    /\ LET r == HandleRead(cursor, size)
       IN  /\ cursor' = r.cursor
           /\ out' = out \o r.ret
           /\ last' = Call("gen.read", 0, "", r.ret, None, <<>>, Len(out), size)
                      @@ [before |-> cursor]
    /\ UNCHANGED <<blobvars, generator, min_read_len, dirvars>>

\* A session's handle in the state lines 143-146 of Handle.__init__ give it.
InitGen == BlobIdle /\ last = NoCall /\ GenInit /\ cursor = CursorInit /\ DirIdle

NextGen == \E size \in 0..MaxRead : GenRead(size)

SpecGen == InitGen /\ [][NextGen]_vars

\* ---------------------------------------------------------------------
\* DictDir: a directory node backed by a dict from names to nodes.

Names == {"a", "b"}

\* contents is a Python dict: insertion ordered, kept as the table of its
\* entries. Deleting a key leaves a dead slot behind, a new key is appended,
\* and an iterator walks the table by position.
Tomb == [name |-> "", node |-> None]

DictHas(e, name) == \E i \in 1..Len(e) : e[i].name = name

DictIndex(e, name) == CHOOSE i \in 1..Len(e) : e[i].name = name

\* contents.get(name, None)
DictGet(e, name) == IF DictHas(e, name) THEN e[DictIndex(e, name)].node ELSE None

\* contents[name] = node: a present key keeps its place
DictSet(e, name, node) ==
    IF DictHas(e, name) THEN [e EXCEPT ![DictIndex(e, name)].node = node]
    ELSE Append(e, [name |-> name, node |-> node])

\* del contents[name], for a present key
DictDel(e, name) == [e EXCEPT ![DictIndex(e, name)] = Tomb]

\* The mapping the dict holds: its live entries in insertion order.
Items(e) == SelectSeq(e, LAMBDA x : x # Tomb)

\* len(contents)
DictUsed(e) == Len(Items(e))

\* list(contents.keys())
Keys(e) == [i \in 1..DictUsed(e) |-> Items(e)[i].name]

\* The nodes in being, and those of class DictDir.
Nodes == {n \in NodeIds : class_of[n] # ""}
DictDirs == {n \in NodeIds : class_of[n] = "DictDir"}

\* The identity of a newly constructed node object.
NewNode == CHOOSE n \in NodeIds : class_of[n] = "" /\ \A m \in NodeIds : class_of[m] = "" => n <= m

\* The table has room for a name not yet in it.
Room(e, name) == DictHas(e, name) \/ Len(e) < MaxEntries

\* The record of a call on directory node d.
DirCall(op, d, name, err, ret, arg) ==
    [op |-> op, s |-> 0, err |-> err, ret |-> ret, h |-> None, arg |-> arg,
     off |-> 0, size |-> 0, old |-> <<>>, d |-> d, name |-> name,
     before |-> contents]

\* Two DictDir objects built by the caller, a file node to put into them,
\* and no directory handle.
DirInit ==
    /\ class_of = [n \in NodeIds |-> IF n \in {1, 2} THEN "DictDir"
                                 ELSE IF n = 3 THEN "BlobFile" ELSE ""]
    /\ dir_rw \in {f \in [NodeIds -> BOOLEAN] : \A n \in NodeIds : n > 2 => ~f[n]}
    /\ \E c \in {<<>>, <<[name |-> "a", node |-> 3]>>} :
          contents = [n \in NodeIds |-> IF n = 1 THEN c ELSE <<>>]
    /\ dhandle = [k \in DirHandles |-> NoDirHandle]

\* DictDir.lookup(name)
Lookup(d, name) ==
    /\ last' = DirCall("lookup", d, name, "", DictGet(contents[d], name), <<>>)
    /\ UNCHANGED <<blobvars, genvars, dirvars>>

\* DictDir.opendir(): the handle holds contents.keys(), a view of the dict
OpendirItems(d) == [node |-> d]

\* DictDir.Handle.__init__(node, items); the handle also remembers the
\* directory's table as opendir found it.
DirHandleInit(d, items) ==
    [open |-> TRUE, node |-> items.node, state |-> "new", di_pos |-> 0,
     di_used |-> 0, len |-> 0, names |-> <<>>, opened |-> contents[d]]

Opendir(k, d) ==
    /\ ~dhandle[k].open
    /\ \A j \in DirHandles : j < k => dhandle[j].open
    /\ dhandle' = [dhandle EXCEPT ![k] = DirHandleInit(d, OpendirItems(d))]
    /\ last' = [DirCall("opendir", d, "", "", None, <<>>) EXCEPT !.h = k]
    /\ UNCHANGED <<blobvars, genvars, class_of, dir_rw, contents>>

\* The transport drops the handle.
Releasedir(k) ==
    /\ dhandle[k].open
    /\ dhandle' = [dhandle EXCEPT ![k] = NoDirHandle]
    /\ last' = [DirCall("releasedir", dhandle[k].node, "", "", None, <<>>) EXCEPT !.h = k]
    /\ UNCHANGED <<blobvars, genvars, class_of, dir_rw, contents>>

\* A variant of the step that takes the next slot of the table, dead or not.
ReaddirStepAnySlot(h) ==
    LET e == contents[h.node]
        it == IF h.state = "new"
              THEN [h EXCEPT !.state = "iter", !.di_pos = 0,
                             !.di_used = DictUsed(e), !.len = DictUsed(e)]
              ELSE h
    IN  IF it.di_pos >= Len(e)
        THEN [handle |-> [it EXCEPT !.state = "done"], err |-> "", ret |-> ""]
        ELSE [handle |-> [it EXCEPT !.di_pos = @ + 1,
                                    !.names = Append(@, e[it.di_pos + 1].name)],
              err |-> "", ret |-> e[it.di_pos + 1].name]

\* One step of `for item in self.items: yield item`: the first step makes
\* the iterator of the view; each step checks that the dict kept its size,
\* skips dead slots, and yields the next key or ends.
ReaddirStep(h) ==
    LET e == contents[h.node]
        it == IF h.state = "new"
              THEN [h EXCEPT !.state = "iter", !.di_pos = 0,
                             !.di_used = DictUsed(e), !.len = DictUsed(e)]
              ELSE h
        rest == {i \in (it.di_pos + 1)..Len(e) : e[i] # Tomb}
        i == CHOOSE j \in rest : \A m \in rest : j <= m
    IN  IF it.di_used # DictUsed(e)
        THEN [handle |-> [it EXCEPT !.state = "error"], err |-> "RuntimeError", ret |-> ""]
        ELSE IF rest = {}
        THEN [handle |-> [it EXCEPT !.state = "done"], err |-> "", ret |-> ""]
        ELSE IF it.len = 0
        THEN [handle |-> [it EXCEPT !.state = "error"], err |-> "RuntimeError", ret |-> ""]
        ELSE [handle |-> [it EXCEPT !.di_pos = i, !.len = @ - 1,
                                    !.names = Append(@, e[i].name)],
              err |-> "", ret |-> e[i].name]

\* DictDir.Handle.readdir(), consumed one item at a time
Readdir(k) ==
    /\ dhandle[k].open /\ dhandle[k].state \in {"new", "iter"}
    /\ LET r == ReaddirStep(dhandle[k])
       IN  /\ dhandle' = [dhandle EXCEPT ![k] = r.handle]
           /\ last' = [DirCall("readdir", dhandle[k].node, "", r.err, r.ret, <<>>)
                          EXCEPT !.h = k]
    /\ UNCHANGED <<blobvars, genvars, class_of, dir_rw, contents>>

\* The rw test the mutating operations start with.
NotWritable(d) == ~dir_rw[d]

\* A call of d that returns or raises without touching anything.
DirReturn(op, d, name, err, arg) ==
    /\ last' = DirCall(op, d, name, err, None, arg)
    /\ UNCHANGED <<blobvars, genvars, dirvars>>

\* A call of d that stores a newly constructed node of class cls under name.
DirCreate(op, d, name, cls, rw_, ret, arg) ==
    /\ Nodes # NodeIds /\ Room(contents[d], name)
    /\ LET n == NewNode
       IN  /\ class_of' = [class_of EXCEPT ![n] = cls]
           /\ dir_rw' = [dir_rw EXCEPT ![n] = rw_]
           /\ contents' = [contents EXCEPT ![n] = <<>>,
                                           ![d] = DictSet(contents[d], name, n)]
           /\ last' = DirCall(op, d, name, "", IF ret THEN n ELSE None, arg)
    /\ UNCHANGED <<blobvars, genvars, dhandle>>

\* DictDir.mknod(name, mode, dev)
Mknod(d, name, dev) ==
    IF NotWritable(d) THEN DirReturn("mknod", d, name, RaiseENOPERM, <<dev>>)
    ELSE IF dev # 0 THEN DirReturn("mknod", d, name, "ENOSYS", <<dev>>)
    ELSE DirCreate("mknod", d, name, "BlobFile", FALSE, TRUE, <<dev>>)

\* DictDir.mkdir(name, mode)
Mkdir(d, name) ==
    IF NotWritable(d) THEN DirReturn("mkdir", d, name, RaiseENOPERM, <<>>)
    ELSE DirCreate("mkdir", d, name, "DictDir", TRUE, TRUE, <<>>)

\* DictDir.symlink(name, target)
Symlink(d, name) ==
    IF NotWritable(d) THEN DirReturn("symlink", d, name, RaiseENOPERM, <<>>)
    ELSE DirCreate("symlink", d, name, "Symlink", FALSE, FALSE, <<>>)

\* del self.contents[name] in unlink and rmdir
DirRemove(op, d, name) ==
    IF NotWritable(d) THEN DirReturn(op, d, name, RaiseENOPERM, <<>>)
    ELSE IF ~DictHas(contents[d], name) THEN DirReturn(op, d, name, "KeyError", <<>>)
    ELSE /\ contents' = [contents EXCEPT ![d] = DictDel(@, name)]
         /\ last' = DirCall(op, d, name, "", None, <<>>)
         /\ UNCHANGED <<blobvars, genvars, class_of, dir_rw, dhandle>>

\* DictDir.unlink(name)
Unlink(d, name) == DirRemove("unlink", d, name)

\* DictDir.rmdir(name)
Rmdir(d, name) == DirRemove("rmdir", d, name)

\* DictDir.rename(old_name, new_parent, new_name): past its two tests the
\* body reads the variable `name`, which no scope defines.
RenameBody(d, old_name, new_parent, new_name) == "NameError"

Rename(d, old_name, new_parent, new_name) ==
    IF class_of[new_parent] # "DictDir"
    THEN DirReturn("rename", d, old_name, "ENOSYS", <<new_parent, new_name>>)
    ELSE IF NotWritable(d) \/ NotWritable(new_parent)
    THEN DirReturn("rename", d, old_name, RaiseENOPERM, <<new_parent, new_name>>)
    ELSE DirReturn("rename", d, old_name,
                   RenameBody(d, old_name, new_parent, new_name),
                   <<new_parent, new_name>>)

\* A variant of link that stores a newly made copy of the node.
LinkCopy(d, name, node) ==
    /\ Nodes # NodeIds /\ Room(contents[d], name)
    /\ class_of' = [class_of EXCEPT ![NewNode] = class_of[node]]
    /\ contents' = [contents EXCEPT ![d] = DictSet(@, name, NewNode)]
    /\ last' = DirCall("link", d, name, "", None, <<node>>)
    /\ UNCHANGED <<blobvars, genvars, dir_rw, dhandle>>

\* DictDir.link(name, node)
Link(d, name, node) ==
    /\ Room(contents[d], name)
    /\ contents' = [contents EXCEPT ![d] = DictSet(@, name, node)]
    /\ last' = DirCall("link", d, name, "", None, <<node>>)
    /\ UNCHANGED <<blobvars, genvars, class_of, dir_rw, dhandle>>

\* The two directories the caller built, on which the calls are made.
Roots == {1, 2}

InitDir == BlobIdle /\ last = NoCall /\ GenIdle /\ DirInit

\* Every call made on directory 1, the other nodes serving as arguments.
NextDir ==
    \E name \in Names :
        \/ Lookup(1, name)
        \/ \E dev \in {0, 1} : Mknod(1, name, dev)
        \/ Mkdir(1, name)
        \/ Symlink(1, name)
        \/ Unlink(1, name)
        \/ Rmdir(1, name)
        \/ \E new_parent \in Nodes, new_name \in Names :
              Rename(1, name, new_parent, new_name)
        \/ \E node \in Nodes \ Roots : Link(1, name, node)

SpecDir == InitDir /\ [][NextDir]_vars

\* The file node put under names in both directories, looked up and removed.
NextLink ==
    \E d \in Roots, name \in Names :
        \/ Link(d, name, 3)
        \/ Lookup(d, name)
        \/ Unlink(d, name)
        \/ Rmdir(d, name)

SpecLink == InitDir /\ [][NextLink]_vars

\* Listing directory 1, writable, while names are put into it and taken out.
InitReaddir == InitDir /\ \A d \in Roots : dir_rw[d]

NextReaddir ==
    \/ \E k \in DirHandles :
          \/ Opendir(k, 1)
          \/ Readdir(k)
          \/ Releasedir(k)
    \/ \E name \in Names :
          \/ Link(1, name, 3)
          \/ Unlink(1, name)

SpecReaddir == InitReaddir /\ [][NextReaddir]_vars

\* ------------------------------------------------------------ claims
\* The sessions whose open returned and whose release was not yet called.
OpenSessions == {s \in Sessions : held[s] # None /\ pc[s] # "release.save"}

\* C1: with calls that run one after the other, the node's shared handle
\* exists exactly when opens minus releases is positive (so it is gone after
\* as many releases as opens), and its session count equals opens minus
\* releases.
C1_RefCount ==
    /\ shared_handle # None <=> Cardinality(OpenSessions) > 0
    /\ shared_handle # None => heap[shared_handle].refs = Cardinality(OpenSessions)

\* C1 witness: the last of the open sessions has just been released.
C1_Witness ==
    /\ last.op = "release"
    /\ OpenSessions = {}
    /\ shared_handle = None

\* C2: an open issued while a session is open returns the handle the earlier
\* open returned, and what one session wrote at an offset is what a read
\* through any other open session returns at that offset.
C2_SharedCoherence ==
    /\ \A s, t \in OpenSessions : held[s] = held[t]
    /\ last.op = "open" => \A t \in OpenSessions : held[t] = last.h
    /\ (last.op = "write" /\ last.err = "") =>
           \A t \in OpenSessions :
               BufRead(heap[held[t]].buffer, last.size, last.off) = last.arg

\* C2 witness: a session wrote while another session was open.
C2_Witness ==
    /\ last.op = "write" /\ last.err = ""
    /\ Cardinality(OpenSessions) >= 2
    /\ last.off > 0

\* C4: on a writable file, when the release that takes the session count to
\* zero completes, the committed content is the shared buffer as it was.
C4_LastReleaseCommits ==
    (rw /\ last.op = "release" /\ OpenSessions = {}) =>
        /\ data = last.arg
        /\ shared_handle = None

\* C4 witness: the last release has saved a buffer that differed from the
\* committed content.
C4_Witness ==
    /\ rw
    /\ last.op = "release"
    /\ OpenSessions = {}
    /\ data # last.old

\* C5: flush leaves the buffer not dirty, and there are never more save()
\* calls than maximal runs of accepted writes/truncates (so none without a
\* write, and at most one for a flush repeated).
C5_SaveOnlyWhenDirty ==
    /\ nsave <= nruns
    /\ last.op = "flush" => ~Truthy(heap[last.h].dirty)

\* C5 witness: a flush found the buffer clean after every run of writes was
\* already saved.
C5_Witness ==
    /\ last.op = "flush"
    /\ nruns = MaxRuns
    /\ nsave = nruns
    /\ data = last.old

\* PermissionDenied, the error of a FuseOSError(EPERM)
PermissionDenied == "EPERM"

\* C6: a write or a handle-level truncate on a file that is not writable is
\* rejected with PermissionDenied and changes neither the buffer, the dirty
\* flag, the session count nor the committed content.
C6_RejectedWithPermissionDenied ==
    [][\A h \in HeldHandles :
          (~rw /\ ( (\E b \in Payloads, offset \in 0..MaxLen : Write(h, b, offset))
                  \/ (\E size \in 0..MaxLen : Truncate(h, size)) ))
          => /\ last'.err = PermissionDenied
             /\ UNCHANGED <<heap, data, shared_handle, held>>]_vars

\* C7: getattr reports the length of the shared buffer while a session is
\* open and the length of the committed content while none is.
C7_GetattrSize ==
    last.op = "getattr" =>
        IF OpenSessions # {}
        THEN \A s \in OpenSessions : last.size = Len(heap[held[s]].buffer)
        ELSE last.size = Len(data)

\* C7 witness: getattr ran while a session held a buffer whose length
\* differs from that of the committed content.
C7_Witness ==
    /\ last.op = "getattr"
    /\ \E s \in OpenSessions : Len(heap[held[s]].buffer) # Len(data)

\* C8: node-level truncate(n) on a writable file with no session open leaves
\* the first n bytes of the old committed content as the committed content.
C8_NodeTruncateCommits ==
    (last.op = "ntruncate" /\ rw /\ OpenSessions = {}) =>
        /\ data = Take(last.old, last.size)
        /\ shared_handle = None

\* C8 witness: truncate(0) emptied a file that had content.
C8_Witness ==
    /\ last.op = "ntruncate" /\ rw /\ OpenSessions = {}
    /\ last.size = 0
    /\ Len(last.old) > 0
    /\ data = <<>>

\* C3: with load() and save() as suspension points, under every interleaving
\* of open and release calls each open session holds the node's current
\* shared handle: no two open sessions hold different handles, and the
\* node's handle is neither discarded nor replaced while a session is open.
C3_OneSharedHandle == \A s \in OpenSessions : held[s] = shared_handle

C10_OpenReturnsHandle ==
    last.op = "gen.open" =>
        /\ last.err = ""
        /\ cursor.open /\ cursor.direct_io /\ cursor.nonseekable
        /\ cursor.current_blob = <<>> /\ ~cursor.blob_is_none
        /\ cursor.current_blob_position = 0

\* C11: every open of a GeneratorFile, the first and each later one, gives a
\* session that stands before the first chunk of a producer started afresh,
\* so that its reads deliver the complete chunk sequence whatever another
\* session has consumed.
C11_OpenStartsFromScratch ==
    last.op = "gen.open" =>
        /\ cursor.open
        /\ cursor.yielded = 0 /\ ~cursor.blob_is_none
        /\ HandleRead(cursor, MaxRead).ret # <<>> \/ Concat(generator) = <<>>

\* The number of bytes in the first k chunks of the producer.
BytesBefore(k) == Len(Concat(SubSeq(generator, 1, k)))

NotFound == "ENOENT"
NotSupported == "ENOSYS"

\* Every directory's mapping is what it was before the most recent call.
MappingsUnchanged == \A n \in NodeIds : Items(contents[n]) = Items(last.before[n])

\* The mapping of directory d before the most recent call, less name.
BeforeWithout(d, name) == SelectSeq(Items(last.before[d]), LAMBDA x : x.name # name)

\* C13: on a DictDir that is not writable, mknod, mkdir, symlink, unlink and
\* rmdir fail with PermissionDenied for any name and leave the mapping as
\* it was.
C13_ReadOnlyDirRejects ==
    (last.op \in {"mknod", "mkdir", "symlink", "unlink", "rmdir"} /\ ~dir_rw[last.d]) =>
        /\ last.err = PermissionDenied
        /\ MappingsUnchanged

\* C14: link on a DictDir that is not writable is rejected and leaves the
\* mapping as it was.
C14_ReadOnlyDirRejectsLink ==
    (last.op = "link" /\ ~dir_rw[last.d]) =>
        /\ last.err # ""
        /\ MappingsUnchanged

\* C15: on a writable DictDir, unlink or rmdir of a name that is absent fails
\* with NotFound and leaves the mapping as it was; of a name that is present
\* it removes exactly that entry, whatever the entry's node holds.
C15_RemoveEntry ==
    (last.op \in {"unlink", "rmdir"} /\ dir_rw[last.d]) =>
        IF DictHas(last.before[last.d], last.name)
        THEN /\ last.err = ""
             /\ Items(contents[last.d]) = BeforeWithout(last.d, last.name)
             /\ \A n \in NodeIds \ {last.d} : Items(contents[n]) = Items(last.before[n])
        ELSE /\ last.err = NotFound
             /\ MappingsUnchanged

\* C16: rename of a present name on a writable DictDir into a writable
\* DictDir moves the entry: new_name in the destination maps to the very
\* node old_name mapped to, old_name is gone from the source unless source
\* and destination and both names are the same, and nothing else changes.
C16_RenameMoves ==
    (/\ last.op = "rename"
     /\ class_of[last.arg[1]] = "DictDir"
     /\ dir_rw[last.d] /\ dir_rw[last.arg[1]]
     /\ DictHas(last.before[last.d], last.name)) =>
        LET new_parent == last.arg[1]
            new_name == last.arg[2]
            node == DictGet(last.before[last.d], last.name)
        IN  /\ last.err = ""
            /\ DictGet(contents[new_parent], new_name) = node
            /\ (new_parent # last.d \/ new_name # last.name) =>
                  ~DictHas(contents[last.d], last.name)
            /\ \A n \in NodeIds, x \in Names :
                  ~(n = last.d /\ x = last.name) /\ ~(n = new_parent /\ x = new_name) =>
                      DictGet(contents[n], x) = DictGet(last.before[n], x)

\* C17: a rename that is rejected changes nothing, and it is rejected with
\* NotSupported when the destination is not a DictDir, with PermissionDenied
\* when source or destination is not writable, and with NotFound when
\* old_name is absent.
C17_RenameRejected ==
    (last.op = "rename" /\ last.err # "") =>
        /\ MappingsUnchanged
        /\ IF class_of[last.arg[1]] # "DictDir" THEN last.err = NotSupported
           ELSE IF ~dir_rw[last.d] \/ ~dir_rw[last.arg[1]] THEN last.err = PermissionDenied
           ELSE ~DictHas(last.before[last.d], last.name) /\ last.err = NotFound

\* C18: a directory handle is a snapshot: readdir yields exactly the names
\* the directory held when opendir was called, whatever is done to the
\* directory after opendir or while the names are being consumed.
C18_HandleIsSnapshot ==
    \A k \in DirHandles : dhandle[k].open =>
        /\ dhandle[k].state # "error"
        /\ dhandle[k].names = Take(Keys(dhandle[k].opened), Len(dhandle[k].names))
        /\ dhandle[k].state = "done" => dhandle[k].names = Keys(dhandle[k].opened)

\* C19: on a directory left as it was at opendir, readdir yields every name
\* once, in the order the names were put into the mapping; each handle has
\* its own progress, and a handle opened after another was exhausted yields
\* the same full sequence.
C19_ReaddirInOrder ==
    \A k \in DirHandles :
        (dhandle[k].open /\ contents[dhandle[k].node] = dhandle[k].opened) =>
            /\ dhandle[k].state # "error"
            /\ dhandle[k].names = Take(Keys(contents[dhandle[k].node]), Len(dhandle[k].names))
            /\ dhandle[k].state = "done" =>
                  dhandle[k].names = Keys(contents[dhandle[k].node])

\* C19 witness: on a two-name directory with a dead slot, untouched since
\* both opendirs, one handle has yielded both names and ended while the
\* other has yielded only the first.
C19_Witness ==
    /\ dhandle[1].open /\ dhandle[2].open
    /\ contents[1] = dhandle[1].opened /\ contents[1] = dhandle[2].opened
    /\ Tomb \in {contents[1][i] : i \in 1..Len(contents[1])}
    /\ DictUsed(contents[1]) = 2
    /\ dhandle[1].state = "done" /\ Len(dhandle[1].names) = 2
    /\ dhandle[2].state = "iter" /\ Len(dhandle[2].names) = 1

\* C20: after link(name, node) on a writable DictDir, lookup(name) returns
\* that very node and nothing else in any mapping has changed, so a node
\* linked under two names or in two directories is one object; removing one
\* of its names leaves every other entry, and so the node, in place.
C20_LinkSharesNode ==
    /\ (last.op = "link" /\ dir_rw[last.d]) =>
          /\ last.err = ""
          /\ DictGet(contents[last.d], last.name) = last.arg[1]
          /\ class_of[last.arg[1]] # ""
          /\ \A n \in NodeIds, x \in Names :
                ~(n = last.d /\ x = last.name) =>
                    DictGet(contents[n], x) = DictGet(last.before[n], x)
    /\ last.op = "lookup" =>
          /\ last.ret = DictGet(contents[last.d], last.name)
          /\ MappingsUnchanged
    /\ (last.op \in {"unlink", "rmdir"} /\ last.err = "") =>
          \A n \in NodeIds, x \in Names :
              ~(n = last.d /\ x = last.name) =>
                  DictGet(contents[n], x) = DictGet(last.before[n], x)

\* C20 witness: the file node sits under a name in each of the two
\* directories, one of its names has just been removed from directory 1, and
\* directory 2 still maps its name to the same node.
C20_Witness ==
    /\ last.op = "unlink" /\ last.err = "" /\ last.d = 1
    /\ DictGet(last.before[1], last.name) = 3
    /\ \E x \in Names : DictGet(last.before[2], x) = 3 /\ DictGet(contents[2], x) = 3
    /\ \A x \in Names : DictGet(contents[1], x) # 3

\* C21: when a write or truncate of one session changes the shared buffer
\* while another session's flush is suspended in save(), the buffer still
\* counts as dirty once that flush has returned, so that a later flush or
\* the last release commits the bytes written meanwhile.
C21_WriteDuringSaveKept ==
    (/\ last.op = "flush" /\ "saved" \in DOMAIN last
     /\ heap[last.h].buffer # last.saved) =>
        Truthy(heap[last.h].dirty)

\* C22: the node's truncate releases the session it opened whether the
\* handle's truncate returned or raised: after the call the session count is
\* what it was before, the node has a shared handle exactly if it had one
\* before, and the sessions that were open hold that same handle.
C22_NodeTruncateReleases ==
    last.op = "ntruncate" =>
        /\ shared_handle = last.before.shared_handle
        /\ shared_handle # None => heap[shared_handle].refs = last.before.refs
        /\ shared_handle = None => last.before.refs = 0
        /\ \A s \in OpenSessions : held[s] = shared_handle

\* C22 witness: the truncate raised on a file that is not writable while
\* two sessions were open, and the handle still counts two sessions.
C22_Witness ==
    /\ last.op = "ntruncate" /\ last.err # "" /\ ~rw
    /\ Cardinality(OpenSessions) = 2
    /\ shared_handle # None /\ heap[shared_handle].refs = 2

====
